---- MODULE Spec2Model ----
(***************************************************************************)
(* Model of the hunk-assembly engine of diff-utils: the Processor that     *)
(* consumes an edit script (equal / delete / insert / replace / finish)    *)
(* and the Context it accumulates the in-progress hunk in.                 *)
(*                                                                         *)
(* Line content is a borrowed slice of the caller's text; a Line is        *)
(* modelled by its kind and positions, which identify the slice.           *)
(***************************************************************************)
EXTENDS Integers, Sequences, FiniteSets, TLC

\* ------------------------------------------------------------------ bounds
MaxRadius == 3        \* context_radius ranges over 0..MaxRadius
MaxOps == 4           \* number of edit-script operations before finish
MaxEqualLen == 7      \* longest single Equal operation
MaxChangeLen == 2     \* longest Delete / Insert / side of a Replace
MaxLines == 10        \* longest old / new sequence
MaxApiOps == 3        \* operations of a comparison whose result is rendered
MaxLiveOps == 3       \* operations of a script followed to its end

\* Comparison::new sets context_radius to 3
DefaultRadius == 3

\* ------------------------------------------------------------ Option<usize>
None == <<>>
Some(x) == <<x>>
IsSome(o) == o # <<>>
Unwrap(o) == o[1]

\* ------------------------------------------------------------------ line.rs
LineKind == {"Removed", "Inserted", "ReplaceRemoved", "ReplaceInserted", "Unchanged"}

\* invert that swaps the replaced kinds only
invert_replaced_only(kind) ==
    CASE kind = "ReplaceInserted" -> "ReplaceRemoved"
      [] kind = "ReplaceRemoved" -> "ReplaceInserted"
      [] OTHER -> kind

invert(kind) ==
    CASE kind = "Removed" -> "Inserted"
      [] kind = "Inserted" -> "Removed"
      [] kind = "ReplaceInserted" -> "ReplaceRemoved"
      [] kind = "ReplaceRemoved" -> "ReplaceInserted"
      [] OTHER -> kind

sign(kind) ==
    CASE kind \in {"ReplaceInserted", "Inserted"} -> "+"
      [] kind \in {"ReplaceRemoved", "Removed"} -> "-"
      [] OTHER -> " "

is_replaced(kind) == kind \in {"ReplaceInserted", "ReplaceRemoved"}

Line_insert(pos) ==
    [kind |-> "Inserted", old_pos |-> None, new_pos |-> Some(pos)]

\* Line::remove that also fills in new_pos
Line_remove_with_both(pos) ==
    [kind |-> "Removed", old_pos |-> Some(pos), new_pos |-> Some(pos)]

Line_remove(pos) ==
    [kind |-> "Removed", old_pos |-> Some(pos), new_pos |-> None]

Line_replace_insert(old_pos, new_pos) ==
    [kind |-> "ReplaceInserted", old_pos |-> old_pos, new_pos |-> Some(new_pos)]

Line_replace_remove(old_pos, new_pos) ==
    [kind |-> "ReplaceRemoved", old_pos |-> Some(old_pos), new_pos |-> new_pos]

Line_unchanged(old_pos, new_pos) ==
    [kind |-> "Unchanged", old_pos |-> Some(old_pos), new_pos |-> Some(new_pos)]

\* --------------------------------------------------------------- context.rs
\* Context::default()
Context_default ==
    [start |-> None, data |-> <<>>, changed |-> FALSE,
     equaled |-> 0, removed |-> 0, inserted |-> 0]

\* The start a hunk is created with: a zero start is replaced by one.
hunk_start(c) == IF Unwrap(c.start) = 0 THEN 1 ELSE Unwrap(c.start)

\* `start + inserted - removed` on usize underflows when it goes below zero.
create_hunk_underflows(c, removed, inserted) ==
    /\ IsSome(c.start)
    /\ c.changed
    /\ hunk_start(c) + inserted - removed < 0

\* create_hunk that does not look at the `changed` flag
create_hunk_ignoring_changed(c, removed, inserted) ==
    IF c.start = None THEN <<>>
    ELSE << [old_start |-> hunk_start(c),
             removed   |-> c.equaled + c.removed,
             new_start |-> hunk_start(c) + inserted - removed,
             inserted  |-> c.equaled + c.inserted,
             lines     |-> c.data] >>

\* create_hunk whose counts leave the context lines out
create_hunk_without_equaled(c, removed, inserted) ==
    IF c.start = None THEN <<>>
    ELSE IF c.changed
         THEN << [old_start |-> hunk_start(c),
                  removed   |-> c.removed,
                  new_start |-> hunk_start(c) + inserted - removed,
                  inserted  |-> c.inserted,
                  lines     |-> c.data] >>
         ELSE <<>>

\* Context::create_hunk: Option<Hunk> as a sequence of zero or one hunk.
create_hunk(c, removed, inserted) ==
    IF c.start = None THEN <<>>
    ELSE IF c.changed
         THEN << [old_start |-> hunk_start(c),
                  removed   |-> c.equaled + c.removed,
                  new_start |-> hunk_start(c) + inserted - removed,
                  inserted  |-> c.equaled + c.inserted,
                  lines     |-> c.data] >>
         ELSE <<>>

\* ------------------------------------------------------------- processor.rs
\* Processor::new
Processor_new(context_radius) ==
    [context_radius |-> context_radius,
     inserted |-> 0,
     removed  |-> 0,
     size     |-> 0,
     context  |-> Context_default,
     result   |-> <<>>,
     panicked |-> FALSE]

\* split_hunks that does not add the closed context's inserted lines to the
\* running total
split_hunks_without_totals(p, i) ==
    LET diff == IF p.size >= p.context_radius THEN p.size - p.context_radius ELSE 0
        len  == Len(p.context.data)
        at   == len - diff
        split_off == SubSeq(p.context.data, at + 1, len)
        c1 == [p.context EXCEPT !.data = SubSeq(p.context.data, 1, at),
                                !.equaled = @ - diff]
        removed == IF split_off = <<>> THEN <<>> ELSE Tail(split_off)
    IN  [p EXCEPT
            !.result   = @ \o create_hunk(c1, p.removed, p.inserted),
            !.removed  = @ + c1.removed,
            !.size     = Len(removed),
            !.context  = [Context_default EXCEPT
                            !.start = IF IsSome(i)
                                      THEN Some(Unwrap(i) - Len(removed))
                                      ELSE None,
                            !.equaled = Len(removed),
                            !.data = removed]]

\* split_hunks whose `size - context_radius` is a plain subtraction
split_hunks_unchecked_sub(p, i) ==
    IF p.size < p.context_radius
    THEN [p EXCEPT !.panicked = TRUE]
    ELSE [p EXCEPT
            !.result   = @ \o create_hunk(
                                [p.context EXCEPT
                                    !.data = SubSeq(@, 1, Len(@) - (p.size - p.context_radius)),
                                    !.equaled = @ - (p.size - p.context_radius)],
                                p.removed, p.inserted),
            !.removed  = @ + p.context.removed,
            !.inserted = @ + p.context.inserted,
            !.size     = 0,
            !.context  = Context_default]

\* split_hunks that cuts context_radius lines whatever self.size is
split_hunks_trimming_radius(p, i) ==
    IF Len(p.context.data) < p.context_radius \/ p.context.equaled < p.context_radius
    THEN [p EXCEPT !.panicked = TRUE]
    ELSE [p EXCEPT
            !.result   = @ \o create_hunk(
                                [p.context EXCEPT
                                    !.data = SubSeq(@, 1, Len(@) - p.context_radius),
                                    !.equaled = @ - p.context_radius],
                                p.removed, p.inserted),
            !.removed  = @ + p.context.removed,
            !.inserted = @ + p.context.inserted,
            !.size     = 0,
            !.context  = Context_default]

\* Processor::split_hunks(i); i is Option<usize>
split_hunks(p, i) ==
    LET diff == IF p.size >= p.context_radius THEN p.size - p.context_radius ELSE 0
        len  == Len(p.context.data)
        at   == len - diff
    IN  IF at < 0 \/ p.context.equaled - diff < 0
        THEN [p EXCEPT !.panicked = TRUE]
        ELSE
        LET split_off == SubSeq(p.context.data, at + 1, len)
            c1 == [p.context EXCEPT !.data = SubSeq(p.context.data, 1, at),
                                    !.equaled = @ - diff]
            removed == IF split_off = <<>> THEN <<>> ELSE Tail(split_off)
        IN  IF create_hunk_underflows(c1, p.removed, p.inserted)
               \/ (IsSome(i) /\ Unwrap(i) - Len(removed) < 0)
            THEN [p EXCEPT !.panicked = TRUE]
            ELSE [p EXCEPT
                    !.result   = @ \o create_hunk(c1, p.removed, p.inserted),
                    !.removed  = @ + c1.removed,
                    !.inserted = @ + c1.inserted,
                    !.size     = Len(removed),
                    !.context  = [Context_default EXCEPT
                                    !.start = IF IsSome(i)
                                              THEN Some(Unwrap(i) - Len(removed))
                                              ELSE None,
                                    !.equaled = Len(removed),
                                    !.data = removed]]

\* enter that sets the start on every call
enter_resetting_start(p, old) ==
    [p EXCEPT !.size = 0,
              !.context.start = Some(old)]

\* The part of every handler that runs before its loop:
\* `self.size = 0; if self.context.start.is_none() { start = Some(old) }`
enter(p, old) ==
    [p EXCEPT !.size = 0,
              !.context.start = IF @ = None THEN Some(old) ELSE @]

\* equal_gathering that never drops the front of the buffer
equal_gathering_unbounded(p, i, j) ==
    IF ~p.context.changed
    THEN [p EXCEPT !.context.data = Append(@, Line_unchanged(i, j)),
                   !.context.equaled = @ + 1,
                   !.size = @ + 1]
    ELSE p

\* equal_gathering that marks the accumulator as changed
equal_gathering_flagging(p, i, j) ==
    IF ~p.context.changed
    THEN [p EXCEPT !.context.data = Append(@, Line_unchanged(i, j)),
                   !.context.equaled = @ + 1,
                   !.context.changed = TRUE]
    ELSE p

\* First `if` of the body of the loop of Processor::equal (no change seen yet)
equal_gathering(p, i, j) ==
    IF ~p.context.changed
    THEN LET pushed == Append(p.context.data, Line_unchanged(i, j))
         IN  IF p.size < p.context_radius
             THEN [p EXCEPT !.context.data = pushed,
                            !.context.equaled = @ + 1,
                            !.size = @ + 1]
             ELSE [p EXCEPT !.context.data = Tail(pushed),
                            !.context.start = IF IsSome(@) THEN Some(Unwrap(@) + 1) ELSE @]
    ELSE p

\* equal_in_change whose threshold is context_radius / 2 instead of * 2
equal_in_change_halved(p, i, j) ==
    IF p.context.changed
    THEN IF p.size < p.context_radius \div 2
         THEN [p EXCEPT !.context.data = Append(@, Line_unchanged(i, j)),
                        !.context.equaled = @ + 1,
                        !.size = @ + 1]
         ELSE LET q == split_hunks(p, Some(i))
              IN  IF q.panicked THEN q
                  ELSE [q EXCEPT !.context.data = Append(@, Line_unchanged(i, j)),
                                 !.size = @ + 1,
                                 !.context.equaled = @ + 1]
    ELSE p

\* equal_in_change that starts a new accumulator without closing the old one
equal_in_change_dropping(p, i, j) ==
    IF p.context.changed
    THEN IF p.size < p.context_radius * 2
         THEN [p EXCEPT !.context.data = Append(@, Line_unchanged(i, j)),
                        !.context.equaled = @ + 1,
                        !.size = @ + 1]
         ELSE [p EXCEPT !.context = [Context_default EXCEPT
                                        !.start = Some(i),
                                        !.data = <<Line_unchanged(i, j)>>,
                                        !.equaled = 1],
                        !.size = 1]
    ELSE p

\* Second `if` of the body of the loop of Processor::equal (after a change)
equal_in_change(p, i, j) ==
    IF p.context.changed
    THEN IF p.size < p.context_radius * 2
         THEN [p EXCEPT !.context.data = Append(@, Line_unchanged(i, j)),
                        !.context.equaled = @ + 1,
                        !.size = @ + 1]
         ELSE LET q == split_hunks(p, Some(i))
              IN  IF q.panicked THEN q
                  ELSE [q EXCEPT !.context.data = Append(@, Line_unchanged(i, j)),
                                 !.size = @ + 1,
                                 !.context.equaled = @ + 1]
    ELSE p

\* The loop of Processor::equal over (old..old+len).zip(new..new+len)
RECURSIVE equal_loop(_, _, _, _)
equal_loop(p, i, j, n) ==
    IF n = 0 \/ p.panicked THEN p
    ELSE equal_loop(equal_in_change(equal_gathering(p, i, j), i, j), i + 1, j + 1, n - 1)

\* Processor::equal
Processor_equal(p, old, new, len) == equal_loop(enter(p, old), old, new, len)

\* delete that does not set the `changed` flag
Processor_delete_unflagged(p, old, len) ==
    LET q == enter(p, old)
    IN  [q EXCEPT !.context.data = @ \o [k \in 1..len |-> Line_remove(old + k - 1)],
                  !.context.removed = @ + len]

\* delete that closes the open hunk before it pushes its lines
Processor_delete_closing(p, old, len) ==
    LET q == split_hunks(enter(p, old), Some(old))
    IN  [q EXCEPT !.context.data = @ \o [k \in 1..len |-> Line_remove(old + k - 1)],
                  !.context.changed = TRUE,
                  !.context.removed = @ + len]

\* Processor::delete
Processor_delete(p, old, len) ==
    LET q == enter(p, old)
    IN  [q EXCEPT !.context.data = @ \o [k \in 1..len |-> Line_remove(old + k - 1)],
                  !.context.changed = TRUE,
                  !.context.removed = @ + len]

\* insert that adds its length to the running total of the Processor
Processor_insert_into_totals(p, old, new, new_len) ==
    LET q == enter(p, old)
    IN  [q EXCEPT !.context.data = @ \o [k \in 1..new_len |-> Line_insert(new + k - 1)],
                  !.context.changed = TRUE,
                  !.inserted = @ + new_len]

\* Processor::insert
Processor_insert(p, old, new, new_len) ==
    LET q == enter(p, old)
    IN  [q EXCEPT !.context.data = @ \o [k \in 1..new_len |-> Line_insert(new + k - 1)],
                  !.context.changed = TRUE,
                  !.context.inserted = @ + new_len]

\* replace that gives every line a counterpart position, paired or not
Processor_replace_all_paired(p, old, old_len, new, new_len) ==
    LET q == enter(p, old)
        removes == [k \in 1..old_len |->
                      Line_replace_remove(old + k - 1, Some(new + k - 1))]
        inserts == [k \in 1..new_len |->
                      Line_replace_insert(Some(old + k - 1), new + k - 1)]
    IN  [q EXCEPT !.context.data = @ \o removes \o inserts,
                  !.context.changed = TRUE,
                  !.context.removed = @ + old_len,
                  !.context.inserted = @ + new_len]

\* replace that pushes the inserted lines before the removed ones
Processor_replace_inserts_first(p, old, old_len, new, new_len) ==
    LET q == enter(p, old)
        removes == [k \in 1..old_len |->
                      Line_replace_remove(old + k - 1,
                          IF new + k - 1 < new + new_len THEN Some(new + k - 1) ELSE None)]
        inserts == [k \in 1..new_len |->
                      Line_replace_insert(
                          IF old + k - 1 < old + old_len THEN Some(old + k - 1) ELSE None,
                          new + k - 1)]
    IN  [q EXCEPT !.context.data = @ \o inserts \o removes,
                  !.context.changed = TRUE,
                  !.context.removed = @ + old_len,
                  !.context.inserted = @ + new_len]

\* replace that pairs every inserted line with the first old position
Processor_replace_first_old(p, old, old_len, new, new_len) ==
    LET q == enter(p, old)
        removes == [k \in 1..old_len |->
                      Line_replace_remove(old + k - 1,
                          IF new + k - 1 < new + new_len THEN Some(new + k - 1) ELSE None)]
        inserts == [k \in 1..new_len |-> Line_replace_insert(Some(old), new + k - 1)]
    IN  [q EXCEPT !.context.data = @ \o removes \o inserts,
                  !.context.changed = TRUE,
                  !.context.removed = @ + old_len,
                  !.context.inserted = @ + new_len]

\* Processor::replace
Processor_replace(p, old, old_len, new, new_len) ==
    LET q == enter(p, old)
        removes == [k \in 1..old_len |->
                      Line_replace_remove(old + k - 1,
                          IF new + k - 1 < new + new_len THEN Some(new + k - 1) ELSE None)]
        inserts == [k \in 1..new_len |->
                      Line_replace_insert(
                          IF old + k - 1 < old + old_len THEN Some(old + k - 1) ELSE None,
                          new + k - 1)]
    IN  [q EXCEPT !.context.data = @ \o removes \o inserts,
                  !.context.changed = TRUE,
                  !.context.removed = @ + old_len,
                  !.context.inserted = @ + new_len]

\* finish that creates the hunk but leaves the accumulator open
Processor_finish_keeping_context(p) ==
    [p EXCEPT !.result = @ \o create_hunk(p.context, p.removed, p.inserted)]

\* Processor::finish
Processor_finish(p) == split_hunks(p, None)

\* ------------------------------------------------------------ state machine
VARIABLES
    processor,   \* the Processor (with its Context and result)
    script,      \* the edit-script operations delivered so far
    old,         \* old-sequence index the next operation starts at
    new,         \* new-sequence index the next operation starts at
    finished,    \* finish() has been called
    api,         \* the outward call made on the comparison and what it produced
    dir          \* a directory comparison: the two walks and what it returned

vars == <<processor, script, old, new, finished, api, dir>>

\* no outward call has been made / no directory comparison is under way
NoCall == [call |-> "none"]
NoDir == [state |-> "none"]

Op(op, o, ol, n, nl) == [op |-> op, old |-> o, old_len |-> ol, new |-> n, new_len |-> nl]

Init ==
    /\ processor \in {Processor_new(r) : r \in 0..MaxRadius}
    /\ script = <<>>
    /\ old = 0
    /\ new = 0
    /\ finished = FALSE
    /\ api = NoCall
    /\ dir = NoDir

CanCall == ~finished /\ ~processor.panicked /\ Len(script) < MaxOps /\ api = NoCall

equal ==
    /\ CanCall
    /\ \E len \in 1..MaxEqualLen :
        /\ processor' = Processor_equal(processor, old, new, len)
        /\ script' = Append(script, Op("Equal", old, len, new, len))
        /\ old' = old + len
        /\ new' = new + len
        /\ old' <= MaxLines
        /\ new' <= MaxLines
    /\ UNCHANGED <<finished, api, dir>>

delete ==
    /\ CanCall
    /\ \E len \in 1..MaxChangeLen :
        /\ processor' = Processor_delete(processor, old, len)
        /\ script' = Append(script, Op("Delete", old, len, new, 0))
        /\ old' = old + len
        /\ old' <= MaxLines
    /\ UNCHANGED <<new, finished, api, dir>>

insert ==
    /\ CanCall
    /\ \E new_len \in 1..MaxChangeLen :
        /\ processor' = Processor_insert(processor, old, new, new_len)
        /\ script' = Append(script, Op("Insert", old, 0, new, new_len))
        /\ new' = new + new_len
        /\ new' <= MaxLines
    /\ UNCHANGED <<old, finished, api, dir>>

replace ==
    /\ CanCall
    /\ \E old_len \in 1..MaxChangeLen, new_len \in 1..MaxChangeLen :
        /\ processor' = Processor_replace(processor, old, old_len, new, new_len)
        /\ script' = Append(script, Op("Replace", old, old_len, new, new_len))
        /\ old' = old + old_len
        /\ new' = new + new_len
        /\ old' <= MaxLines
        /\ new' <= MaxLines
    /\ UNCHANGED <<finished, api, dir>>

finish ==
    /\ ~finished
    /\ ~processor.panicked
    /\ api = NoCall
    /\ processor' = Processor_finish(processor)
    /\ finished' = TRUE
    /\ UNCHANGED <<script, old, new, api, dir>>

Next == equal \/ delete \/ insert \/ replace \/ finish

Spec == Init /\ [][Next]_vars

\* The driver delivers a finite script and then calls finish(): finish is
\* taken once it stays enabled.
LiveBudget == Len(script) < MaxLiveOps

NextLive ==
    \/ (LiveBudget /\ equal)
    \/ (LiveBudget /\ delete)
    \/ (LiveBudget /\ insert)
    \/ (LiveBudget /\ replace)
    \/ finish

SpecLive == Init /\ [][NextLive]_vars /\ WF_vars(finish)

\* CompareResult::hunks / CompareResult::is_empty on the finished result
hunks == processor.result
is_empty == hunks = <<>>

\* ------------------------------------------------------ reading the result
Radius == processor.context_radius
Completed == finished /\ ~processor.panicked

IsChangeOp(o) == o.op \in {"Delete", "Insert", "Replace"}
OnlyEqualOps == \A k \in 1..Len(script) : script[k].op = "Equal"

IsOldSide(l) == sign(l.kind) # "+"
IsNewSide(l) == sign(l.kind) # "-"
OldSide(h) == SelectSeq(h.lines, IsOldSide)
NewSide(h) == SelectSeq(h.lines, IsNewSide)

\* old positions present, consecutive and ascending
ConsecutiveOld(ls) ==
    \A k \in 1..Len(ls) :
        /\ IsSome(ls[k].old_pos)
        /\ Unwrap(ls[k].old_pos) = Unwrap(ls[1].old_pos) + (k - 1)

\* new positions present, consecutive and ascending
ConsecutiveNew(ls) ==
    \A k \in 1..Len(ls) :
        /\ IsSome(ls[k].new_pos)
        /\ Unwrap(ls[k].new_pos) = Unwrap(ls[1].new_pos) + (k - 1)

CountKind(h, kinds) == Cardinality({k \in 1..Len(h.lines) : h.lines[k].kind \in kinds})

\* ------------------------------------------------------------------ claims

\* C1 (Identity): a script made only of Equal operations, one or several,
\* followed by finish() completes and leaves the result without hunks, for
\* every radius including 0.
C1_Identity ==
    (finished /\ OnlyEqualOps) => (~processor.panicked /\ is_empty)

C1_Witness ==
    /\ Completed
    /\ OnlyEqualOps
    /\ Len(script) >= 2
    /\ old > 2 * Radius
    /\ is_empty

\* C2 (is_empty iff no differences): after finish() the hunk list is empty
\* exactly when the script holds no Delete, Insert or Replace operation.
C2_EmptyIffNoDifference ==
    Completed => (is_empty <=> OnlyEqualOps)

C2_Witness ==
    /\ Completed
    /\ ~OnlyEqualOps
    /\ script[1].op = "Equal"
    /\ script[Len(script)].op = "Equal"
    /\ ~is_empty

\* C3 (Reconstruction): in every emitted hunk the '-' and ' ' lines are
\* exactly `removed` lines with consecutive ascending old positions and the
\* '+' and ' ' lines are exactly `inserted` lines with consecutive ascending
\* new positions.
C3_Reconstruction ==
    \A n \in 1..Len(hunks) :
        /\ Len(OldSide(hunks[n])) = hunks[n].removed
        /\ ConsecutiveOld(OldSide(hunks[n]))
        /\ Len(NewSide(hunks[n])) = hunks[n].inserted
        /\ ConsecutiveNew(NewSide(hunks[n]))

\* a hunk closed by a split, with leading context, a replace and trailing
\* context, followed by a second hunk
C3_Witness ==
    /\ Completed
    /\ Len(hunks) = 2
    /\ hunks[1].lines[1].kind = "Unchanged"
    /\ CountKind(hunks[1], {"ReplaceRemoved"}) = 2
    /\ CountKind(hunks[1], {"ReplaceInserted"}) = 1
    /\ hunks[1].lines[Len(hunks[1].lines)].kind = "Unchanged"
    /\ hunks[2].lines[1].kind = "Unchanged"

\* C4 (1-based starts): old_start is the 1-based line number (0-based
\* position + 1) of the hunk's first old-side line, and new_start that of
\* its first new-side line, wherever the hunk begins.
C4_StartsAreOneBased ==
    \A n \in 1..Len(hunks) :
        /\ OldSide(hunks[n]) # <<>> =>
              hunks[n].old_start = Unwrap(OldSide(hunks[n])[1].old_pos) + 1
        /\ NewSide(hunks[n]) # <<>> =>
              hunks[n].new_start = Unwrap(NewSide(hunks[n])[1].new_pos) + 1

\* last old line number a hunk covers, in the numbering of its old_start
OldEnd(h) == h.old_start + h.removed - 1

\* C5 (Ordering and non-overlap): old_start is strictly increasing along the
\* result and the old range of a hunk ends strictly before the old_start of
\* the next hunk.
C5_OrderedNonOverlapping ==
    \A n \in 1..(Len(hunks) - 1) :
        /\ hunks[n].old_start < hunks[n + 1].old_start
        /\ OldEnd(hunks[n]) < hunks[n + 1].old_start

IsChanged(l) == l.kind # "Unchanged"
ChangedAt(h) == {k \in 1..Len(h.lines) : IsChanged(h.lines[k])}
Min(S) == CHOOSE x \in S : \A y \in S : x <= y
Max(S) == CHOOSE x \in S : \A y \in S : x >= y

\* Unchanged lines before the first changed line of a hunk
LeadingContext(h) == IF ChangedAt(h) = {} THEN Len(h.lines) ELSE Min(ChangedAt(h)) - 1

\* Unchanged lines after the last changed line of a hunk
TrailingContext(h) == IF ChangedAt(h) = {} THEN Len(h.lines) ELSE Len(h.lines) - Max(ChangedAt(h))

\* C6 (Context bound): in every emitted hunk the leading and the trailing
\* run of Unchanged lines have at most `radius` lines each.
C6_ContextBound ==
    \A n \in 1..Len(hunks) :
        /\ LeadingContext(hunks[n]) <= Radius
        /\ TrailingContext(hunks[n]) <= Radius

\* first line an operation that changes something appends to the buffer
FirstLine(o) ==
    CASE o.op = "Delete" -> Line_remove(o.old)
      [] o.op = "Insert" -> Line_insert(o.new)
      [] OTHER -> Line_replace_remove(o.old, Some(o.new))

Holds(h, l) == \E k \in 1..Len(h.lines) : h.lines[k] = l
HunkOf(o) == CHOOSE n \in 1..Len(hunks) : Holds(hunks[n], FirstLine(o))

\* script[a] and script[b] are consecutive changes: only Equal in between
ConsecutiveChanges(a, b) ==
    /\ a < b
    /\ IsChangeOp(script[a])
    /\ IsChangeOp(script[b])
    /\ \A m \in (a + 1)..(b - 1) : script[m].op = "Equal"

\* number of unchanged lines between two consecutive changes
Gap(a, b) == script[b].old - (script[a].old + script[a].old_len)

\* Unchanged lines of hunk h whose old position lies between the changes
KeptBetween(h, a, b) ==
    Cardinality({k \in 1..Len(h.lines) :
        /\ h.lines[k].kind = "Unchanged"
        /\ Unwrap(h.lines[k].old_pos) >= script[a].old + script[a].old_len
        /\ Unwrap(h.lines[k].old_pos) < script[b].old})

\* C7 (Merge/split threshold): two consecutive changes separated by k
\* unchanged lines are in one hunk that keeps all k lines when
\* k <= 2*radius, and in two different hunks when k > 2*radius.
C7_MergeSplitThreshold ==
    Completed =>
        \A a, b \in 1..Len(script) :
            ConsecutiveChanges(a, b) =>
                IF Gap(a, b) <= 2 * Radius
                THEN /\ HunkOf(script[a]) = HunkOf(script[b])
                     /\ KeptBetween(hunks[HunkOf(script[a])], a, b) = Gap(a, b)
                ELSE HunkOf(script[a]) # HunkOf(script[b])

RECURSIVE NetInserted(_)
\* (inserted - removed) over the change lines of the first n hunks
NetInserted(n) ==
    IF n = 0 THEN 0
    ELSE NetInserted(n - 1)
         + CountKind(hunks[n], {"Inserted", "ReplaceInserted"})
         - CountKind(hunks[n], {"Removed", "ReplaceRemoved"})

\* C8 (Position translation): new_start - old_start of a hunk is the number
\* of lines inserted minus the number removed over the change lines of the
\* hunks emitted before it.
C8_PositionTranslation ==
    \A n \in 1..Len(hunks) :
        hunks[n].new_start - hunks[n].old_start = NetInserted(n - 1)

C8_Witness ==
    /\ Completed
    /\ Len(hunks) = 2
    /\ NetInserted(1) = 2
    /\ CountKind(hunks[2], {"Removed"}) = 2
    /\ hunks[2].new_start = hunks[2].old_start + 2

ScenarioA ==
    /\ Completed
    /\ Radius = DefaultRadius
    /\ script = << Op("Replace", 0, 2, 0, 2) >>

\* C9 (Scenario A): the script Replace(0,2,0,2) at radius 3 gives exactly one
\* hunk, old_start 1, removed 2, new_start 1, inserted 2, holding two
\* ReplaceRemoved then two ReplaceInserted lines.
C9_ScenarioA ==
    ScenarioA =>
        /\ Len(hunks) = 1
        /\ hunks[1].old_start = 1
        /\ hunks[1].removed = 2
        /\ hunks[1].new_start = 1
        /\ hunks[1].inserted = 2
        /\ [k \in 1..Len(hunks[1].lines) |-> hunks[1].lines[k].kind]
               = << "ReplaceRemoved", "ReplaceRemoved", "ReplaceInserted", "ReplaceInserted" >>

C9_Witness == ScenarioA /\ Len(hunks) = 1

\* Equal(0,0,N) then a one-line Insert at the end, radius 3
ScenarioB ==
    /\ Completed
    /\ Radius = DefaultRadius
    /\ Len(script) = 2
    /\ script[1].op = "Equal"
    /\ script[2] = Op("Insert", script[1].old_len, 0, script[1].new_len, 1)

ScenarioB_N == script[1].old_len
ScenarioB_Kept == IF ScenarioB_N < DefaultRadius THEN ScenarioB_N ELSE DefaultRadius

\* the last min(3, N) unchanged lines followed by the inserted line
ScenarioB_Lines ==
    [k \in 1..ScenarioB_Kept |->
        Line_unchanged(ScenarioB_N - ScenarioB_Kept + k - 1, ScenarioB_N - ScenarioB_Kept + k - 1)]
    \o << Line_insert(ScenarioB_N) >>

LastOp == script[Len(script)]

\* the lines the last operation appended to the buffer, when it is a replace
ReplaceTail ==
    SubSeq(processor.context.data,
           Len(processor.context.data) - (LastOp.old_len + LastOp.new_len) + 1,
           Len(processor.context.data))

AfterReplace == script # <<>> /\ ~finished /\ LastOp.op = "Replace"

SamePair(a, b) == a.old_pos = b.old_pos /\ a.new_pos = b.new_pos

\* C15 (Replace pairing): after replace(old, oldLen, new, newLen) the k-th
\* ReplaceRemoved line has old_pos old+k and new_pos new+k when k < newLen and
\* none otherwise, the k-th ReplaceInserted line has new_pos new+k and old_pos
\* old+k when k < oldLen and none otherwise, and a removed and an inserted
\* line carry the same pair of positions exactly when they have the same
\* index (which is then below min(oldLen, newLen)).
C15_ReplacePairing ==
    AfterReplace =>
        LET o == LastOp
            t == ReplaceTail
        IN  /\ Len(processor.context.data) >= o.old_len + o.new_len
            /\ \A k \in 0..(o.old_len - 1) :
                  t[k + 1] = [kind |-> "ReplaceRemoved",
                              old_pos |-> Some(o.old + k),
                              new_pos |-> IF k < o.new_len THEN Some(o.new + k) ELSE None]
            /\ \A k \in 0..(o.new_len - 1) :
                  t[o.old_len + k + 1] = [kind |-> "ReplaceInserted",
                                          old_pos |-> IF k < o.old_len THEN Some(o.old + k) ELSE None,
                                          new_pos |-> Some(o.new + k)]
            /\ \A k \in 0..(o.old_len - 1), m \in 0..(o.new_len - 1) :
                  SamePair(t[k + 1], t[o.old_len + m + 1]) <=> (k = m)

C15_Witness ==
    /\ AfterReplace
    /\ LastOp.old > 0
    /\ LastOp.old_len = 2
    /\ LastOp.new_len = 1
    /\ ReplaceTail[2].new_pos = None

\* ------------------------------------------------------------ sub-line runs
Longest == IF old >= new THEN old ELSE new

\* the radius LineDiff::fmt runs the comparison with covers both sequences
SubLineRun == Completed /\ Radius >= Longest

\* C16 (Sub-line diff never splits): with a radius of at least the length of
\* the longer sequence, every well-formed script gives zero hunks or one.
C16_SubLineNeverSplits ==
    SubLineRun => Len(hunks) <= 1

C16_Witness ==
    /\ SubLineRun
    /\ Len(script) = 3
    /\ IsChangeOp(script[1])
    /\ script[2].op = "Equal"
    /\ IsChangeOp(script[3])
    /\ Len(hunks) = 1

\* ------------------------------------------------------------ the two texts
\* Content of the old sequence at index i (Comparison::left / Processor::text1).
text1(i) == [side |-> "left", index |-> i]

\* Content of the new sequence at index j (Comparison::right / Processor::text2):
\* the alignment pairs equal elements, every other new element differs from
\* all old ones.
text2(j) ==
    IF \E k \in 1..Len(script) :
          script[k].op = "Equal" /\ j >= script[k].new /\ j < script[k].new + script[k].new_len
    THEN LET k == CHOOSE k \in 1..Len(script) :
                    script[k].op = "Equal" /\ j >= script[k].new
                    /\ j < script[k].new + script[k].new_len
         IN  text1(script[k].old + (j - script[k].new))
    ELSE [side |-> "right", index |-> j]

left == [i \in 1..old |-> text1(i - 1)]
right == [j \in 1..new |-> text2(j - 1)]

\* Line::inner: the slice the Processor stored in the line
Line_inner(l) ==
    IF l.kind \in {"Inserted", "ReplaceInserted"}
    THEN text2(Unwrap(l.new_pos))
    ELSE text1(Unwrap(l.old_pos))

\* --------------------------------------------------------------- rendering
\* Rendered text is a sequence of pieces: newlines, the message, hunk
\* headers and rows.
NL == [t |-> "nl"]
Msg(m) == [t |-> "msg", text |-> m]

\* DisplayOptions::default() and PatchOptions::default()
DisplayOptions_default == [offset |-> 0, msg_fmt |-> ""]
PatchOptions_default == [offset |-> 1]

\* LineDisplay::fmt: the position columns, the sign and the content
LineDisplay_fmt(l, inner, options, sub_line) ==
    LET i == IF IsSome(l.old_pos) THEN Some(Unwrap(l.old_pos) + 1 + options.offset) ELSE None
        j == IF IsSome(l.new_pos) THEN Some(Unwrap(l.new_pos) + 1 + options.offset) ELSE None
    IN  [t |-> "row",
         old_col |-> IF l.kind \in {"Inserted", "ReplaceInserted"} THEN None ELSE i,
         new_col |-> IF l.kind \in {"Removed", "ReplaceRemoved"} THEN None ELSE j,
         sign |-> sign(l.kind),
         inner |-> inner,
         sub_line |-> sub_line]

\* the Option values LineDisplay::fmt unwraps for a line of this kind
LineDisplay_unwraps(l) ==
    CASE l.kind \in {"Inserted", "ReplaceInserted"} -> {l.new_pos}
      [] l.kind \in {"Removed", "ReplaceRemoved"} -> {l.old_pos}
      [] OTHER -> {l.old_pos, l.new_pos}

\* get_with_pos
get_with_pos(l) ==
    IF is_replaced(l.kind) /\ IsSome(l.old_pos)
    THEN Some(<<Unwrap(l.old_pos), l.kind>>)
    ELSE None

\* get_inverted that keeps the kind of the line
get_inverted_same_kind(l) ==
    IF IsSome(get_with_pos(l))
    THEN Some(<<Unwrap(l.old_pos), l.kind>>)
    ELSE None

\* get_inverted
get_inverted(l) ==
    IF IsSome(get_with_pos(l))
    THEN Some(<<Unwrap(l.old_pos), invert(l.kind)>>)
    ELSE None

\* the BTreeMap of replaced lines HunkDisplay::fmt looks pairs up in
replaced_keys(h) ==
    {Unwrap(get_with_pos(h.lines[k])) :
        k \in {m \in 1..Len(h.lines) : IsSome(get_with_pos(h.lines[m]))}}

\* one line of HunkDisplay::fmt: through LineDiff when the pair is in the
\* hunk (the row keeps the line's columns and content), else Line::display
HunkDisplay_row(h, l, options) ==
    LineDisplay_fmt(l, Line_inner(l), options,
        IsSome(get_inverted(l)) /\ Unwrap(get_inverted(l)) \in replaced_keys(h))

\* HunkDisplay::fmt
HunkDisplay_fmt(h, options) ==
    << [t |-> "header",
        old_start |-> h.old_start + options.offset,
        removed   |-> h.removed,
        new_start |-> h.new_start + options.offset,
        inserted  |-> h.inserted] >>
    \o [k \in 1..Len(h.lines) |-> HunkDisplay_row(h, h.lines[k], options)]

RECURSIVE join_hunks(_, _)
\* .map(|s| s.display(options).to_string()).join("\n")
join_hunks(hs, options) ==
    IF hs = <<>> THEN <<>>
    ELSE IF Len(hs) = 1 THEN HunkDisplay_fmt(hs[1], options)
    ELSE HunkDisplay_fmt(hs[1], options) \o <<NL>> \o join_hunks(Tail(hs), options)

\* CompareResultDisplay::fmt that writes the message whatever the result holds
CompareResultDisplay_fmt_unconditional(hs, options) ==
    <<NL, Msg(options.msg_fmt), NL, NL>> \o join_hunks(hs, options)

\* CompareResultDisplay::fmt
CompareResultDisplay_fmt(hs, options) ==
    IF hs # <<>>
    THEN <<NL, Msg(options.msg_fmt), NL, NL>> \o join_hunks(hs, options)
    ELSE <<>>

\* HunkPatch::fmt
HunkPatch_fmt(h, options) ==
    << [t |-> "header",
        old_start |-> h.old_start + options.offset,
        removed   |-> h.removed,
        new_start |-> h.new_start + options.offset,
        inserted  |-> h.inserted] >>
    \o [k \in 1..Len(h.lines) |->
          [t |-> "line", sign |-> sign(h.lines[k].kind), inner |-> Line_inner(h.lines[k])]]

RECURSIVE patch_hunks(_, _)
patch_hunks(hs, options) ==
    IF hs = <<>> THEN <<>>
    ELSE HunkPatch_fmt(hs[1], options) \o patch_hunks(Tail(hs), options)

\* CompareResultPatch::fmt
CompareResultPatch_fmt(hs, options) ==
    << [t |-> "file", sign |-> "---"], [t |-> "file", sign |-> "+++"] >>
    \o patch_hunks(hs, options)

\* compare that drops the alignment's error and returns what was built so far
Comparison_compare_swallowing(diff_ok, p) ==
    [ok |-> TRUE, hunks |-> p.result]

\* Comparison::compare: the alignment's error is returned as it is, else the
\* Processor's result becomes the CompareResult
Comparison_compare(diff_ok, p) ==
    IF diff_ok
    THEN [ok |-> TRUE, hunks |-> p.result]
    ELSE [ok |-> FALSE, error |-> "alignment"]

\* ------------------------------------------------- calls on the comparison
Offsets == {0, 1, 123}
Messages == {"", "Found differences"}

Returned == finished /\ ~processor.panicked /\ api = NoCall

\* the alignment stage fails in the middle of the script
fail ==
    /\ ~finished
    /\ ~processor.panicked
    /\ api = NoCall
    /\ api' = [call |-> "compare", ret |-> Comparison_compare(FALSE, processor)]
    /\ UNCHANGED <<processor, script, old, new, finished, dir>>

\* compare() returns after finish()
compare ==
    /\ Returned
    /\ api' = [call |-> "compare", ret |-> Comparison_compare(TRUE, processor)]
    /\ UNCHANGED <<processor, script, old, new, finished, dir>>

\* result.display(options).to_string()
display ==
    /\ Returned
    /\ \E offset \in Offsets \ {1}, msg \in Messages :
        LET options == [offset |-> offset, msg_fmt |-> msg]
        IN  api' = [call |-> "display", options |-> options,
                    text |-> CompareResultDisplay_fmt(hunks, options)]
    /\ UNCHANGED <<processor, script, old, new, finished, dir>>

\* result.patch(.., options).to_string()
patch ==
    /\ Returned
    /\ \E offset \in Offsets \ {0} :
        LET options == [offset |-> offset]
        IN  api' = [call |-> "patch", options |-> options,
                    text |-> CompareResultPatch_fmt(hunks, options)]
    /\ UNCHANGED <<processor, script, old, new, finished, dir>>

\* inner_try_diff with the default display options instead of the caller's
inner_try_diff_default_options(hs, msg_fmt) ==
    IF hs # <<>>
    THEN [ok |-> FALSE, err |-> CompareResultDisplay_fmt(hs, DisplayOptions_default)]
    ELSE [ok |-> TRUE]

\* inner_try_diff on the result of Comparison::new(&e, &a).compare()
inner_try_diff(hs, msg_fmt) ==
    IF hs # <<>>
    THEN [ok |-> FALSE,
          err |-> CompareResultDisplay_fmt(hs, [offset |-> 0, msg_fmt |-> msg_fmt])]
    ELSE [ok |-> TRUE]

\* inner_assert_diff: panics with the error of inner_try_diff
inner_assert_diff(hs, msg_fmt) ==
    IF ~inner_try_diff(hs, msg_fmt).ok
    THEN [panicked |-> TRUE, payload |-> inner_try_diff(hs, msg_fmt).err]
    ELSE [panicked |-> FALSE]

\* try_diff!(expected, actual, msg): the comparison ran with Comparison::new
try_diff ==
    /\ Returned
    /\ Radius = DefaultRadius
    /\ \E msg \in Messages :
        api' = [call |-> "try_diff", msg |-> msg, ret |-> inner_try_diff(hunks, msg)]
    /\ UNCHANGED <<processor, script, old, new, finished, dir>>

\* assert_diff!(expected, actual, msg)
assert_diff ==
    /\ Returned
    /\ Radius = DefaultRadius
    /\ \E msg \in Messages :
        api' = [call |-> "assert_diff", msg |-> msg, outcome |-> inner_assert_diff(hunks, msg)]
    /\ UNCHANGED <<processor, script, old, new, finished, dir>>

\* LineDiff::fmt that filters out Removed elements only
LineDiff_fmt_keeping_replaced(hs) ==
    IF hs = <<>>
    THEN [k \in 1..Len(right) |-> [c |-> right[k], style |-> "plain"]]
    ELSE LET kept(l) == l.kind # "Removed"
             letters == SelectSeq(hs[1].lines, kept)
         IN  [k \in 1..Len(letters) |->
                [c |-> Line_inner(letters[k]),
                 style |-> IF letters[k].kind = "Unchanged" THEN "dimmed" ELSE "reversed"]]

\* LineDiff::fmt, the content it prints for the right line: the comparison it
\* runs is over the characters of the two lines
LineDiff_fmt(hs) ==
    IF hs = <<>>
    THEN [k \in 1..Len(right) |-> [c |-> right[k], style |-> "plain"]]
    ELSE LET kept(l) == l.kind # "Removed" /\ l.kind # "ReplaceRemoved"
             letters == SelectSeq(hs[1].lines, kept)
         IN  [k \in 1..Len(letters) |->
                [c |-> Line_inner(letters[k]),
                 style |-> IF letters[k].kind = "Unchanged" THEN "dimmed" ELSE "reversed"]]

\* LineDiff { left, right }.fmt: context_radius is the longer byte length,
\* between the character count and four times the character count
line_diff ==
    /\ Returned
    /\ Radius >= (IF old >= new THEN old ELSE new)
    /\ Radius <= 4 * (IF old >= new THEN old ELSE new)
    /\ api' = [call |-> "line_diff", inner |-> LineDiff_fmt(hunks)]
    /\ UNCHANGED <<processor, script, old, new, finished, dir>>

ApiBudget == Len(script) < MaxApiOps

\* finish() called once more on a Processor that has finished
finish_again ==
    /\ Returned
    /\ processor' = Processor_finish(processor)
    /\ api' = [call |-> "finish", result_before |-> processor.result]
    /\ UNCHANGED <<script, old, new, finished, dir>>

NextApi ==
    \/ (ApiBudget /\ equal)
    \/ (ApiBudget /\ delete)
    \/ (ApiBudget /\ insert)
    \/ (ApiBudget /\ replace)
    \/ finish
    \/ fail
    \/ compare
    \/ display
    \/ patch
    \/ try_diff
    \/ assert_diff
    \/ line_diff
    \/ finish_again

SpecApi == Init /\ [][NextApi]_vars

\* ------------------------------------------------------- claims on rendering
IsHeader(x) == x.t = "header"
IsMsg(x) == x.t = "msg"
IsBody(x) == x.t \in {"header", "row"}
Headers(text) == SelectSeq(text, IsHeader)

\* C11 (patch header, default offset): every hunk header of the patch form
\* shows the 1-based old line number of the hunk's first old-side line and
\* the 1-based new line number of its first new-side line, also for a hunk
\* that begins at the first line.
C11_PatchHeaderOneBased ==
    (api.call = "patch" /\ api.options = PatchOptions_default) =>
        \A n \in 1..Len(hunks) :
            /\ OldSide(hunks[n]) # <<>> =>
                  Headers(api.text)[n].old_start = Unwrap(OldSide(hunks[n])[1].old_pos) + 1
            /\ NewSide(hunks[n]) # <<>> =>
                  Headers(api.text)[n].new_start = Unwrap(NewSide(hunks[n])[1].new_pos) + 1

\* text[m] is a row of the hunk whose header is text[k]
RowOf(text, k, m) ==
    /\ m > k
    /\ text[m].t = "row"
    /\ \A x \in (k + 1)..m : text[x].t # "header"

\* text[m] is the first row under header text[k] that prints an old position
FirstOldRow(text, k, m) ==
    /\ RowOf(text, k, m)
    /\ IsSome(text[m].old_col)
    /\ \A x \in (k + 1)..(m - 1) : text[x].t = "row" => text[x].old_col = None

\* text[m] is the first row under header text[k] that prints a new position
FirstNewRow(text, k, m) ==
    /\ RowOf(text, k, m)
    /\ IsSome(text[m].new_col)
    /\ \A x \in (k + 1)..(m - 1) : text[x].t = "row" => text[x].new_col = None

\* C12 (display offset): in display form the old (new) start printed in a
\* hunk header equals the old (new) position printed on the first row of
\* that hunk that has one, for every offset.
C12_DisplayHeaderMatchesFirstRow ==
    api.call = "display" =>
        \A k, m \in 1..Len(api.text) :
            api.text[k].t = "header" =>
                /\ FirstOldRow(api.text, k, m) =>
                      api.text[k].old_start = Unwrap(api.text[m].old_col)
                /\ FirstNewRow(api.text, k, m) =>
                      api.text[k].new_start = Unwrap(api.text[m].new_col)

RECURSIVE AllHunkDisplays(_, _)
\* the headers and rows of the hunks, in result order
AllHunkDisplays(hs, options) ==
    IF hs = <<>> THEN <<>>
    ELSE HunkDisplay_fmt(hs[1], options) \o AllHunkDisplays(Tail(hs), options)

\* C13 (display of a whole result): a result without hunks renders as
\* nothing at all; otherwise the message is written exactly once, before the
\* first hunk, and every hunk follows it in result order.
C13_DisplayWholeResult ==
    api.call = "display" =>
        IF hunks = <<>>
        THEN api.text = <<>>
        ELSE /\ Len(SelectSeq(api.text, IsMsg)) = 1
             /\ api.text[2] = Msg(api.options.msg_fmt)
             /\ \A k \in 1..2 : ~IsBody(api.text[k])
             /\ SelectSeq(api.text, IsBody) = AllHunkDisplays(hunks, api.options)

C13_Witness ==
    /\ api.call = "display"
    /\ api.options.msg_fmt = "Found differences"
    /\ Len(hunks) = 2
    /\ Len(Headers(api.text)) = 2

C13_WitnessEmpty ==
    /\ api.call = "display"
    /\ script # <<>>
    /\ hunks = <<>>
    /\ api.text = <<>>

\* C18 (alignment failure aborts cleanly): when the alignment fails,
\* compare() returns the error and no hunk list at all; it returns Ok only
\* after finish(), so an Ok result without hunks means the script held no
\* difference.
C18_AlignmentFailureAborts ==
    api.call = "compare" =>
        IF api.ret.ok
        THEN /\ finished
             /\ api.ret.hunks = <<>> => OnlyEqualOps
        ELSE /\ ~finished
             /\ DOMAIN api.ret = {"ok", "error"}

\* the alignment failed after the builder had already closed a hunk
C18_Witness ==
    /\ api.call = "compare"
    /\ ~api.ret.ok
    /\ processor.result # <<>>

\* ------------------------------------------- scripts the builder is handed
\* The handlers take whatever indices the caller passes; here they are called on two texts of TextLen lines each, starting
\* one before, at, or one after the place the previous operation ended.
TextLen == 3
MaxUncheckedOps == 2
Skews == {-1, 0, 1}

\* `self.text1[i]` / `self.text2[j]`: the slice index panics when out of range
index_out_of_range(first, len) == first + len > TextLen

CanDeliver ==
    /\ ~finished
    /\ ~processor.panicked
    /\ api = NoCall
    /\ Len(script) < MaxUncheckedOps

deliver_equal ==
    /\ CanDeliver
    /\ \E d \in Skews, len \in 1..TextLen :
        /\ old + d >= 0
        /\ new + d >= 0
        /\ processor' = IF index_out_of_range(old + d, len)
                        THEN [processor EXCEPT !.panicked = TRUE]
                        ELSE Processor_equal(processor, old + d, new + d, len)
        /\ script' = Append(script, Op("Equal", old + d, len, new + d, len))
        /\ old' = old + d + len
        /\ new' = new + d + len
    /\ UNCHANGED <<finished, api, dir>>

deliver_delete ==
    /\ CanDeliver
    /\ \E d \in Skews, len \in 1..MaxChangeLen :
        /\ old + d >= 0
        /\ processor' = IF index_out_of_range(old + d, len)
                        THEN [processor EXCEPT !.panicked = TRUE]
                        ELSE Processor_delete(processor, old + d, len)
        /\ script' = Append(script, Op("Delete", old + d, len, new, 0))
        /\ old' = old + d + len
    /\ UNCHANGED <<new, finished, api, dir>>

deliver_insert ==
    /\ CanDeliver
    /\ \E d \in Skews, new_len \in 1..MaxChangeLen :
        /\ new + d >= 0
        /\ processor' = IF index_out_of_range(new + d, new_len)
                        THEN [processor EXCEPT !.panicked = TRUE]
                        ELSE Processor_insert(processor, old, new + d, new_len)
        /\ script' = Append(script, Op("Insert", old, 0, new + d, new_len))
        /\ new' = new + d + new_len
    /\ UNCHANGED <<old, finished, api, dir>>

deliver_replace ==
    /\ CanDeliver
    /\ \E d \in Skews, old_len \in 1..MaxChangeLen, new_len \in 1..MaxChangeLen :
        /\ old + d >= 0
        /\ new + d >= 0
        /\ processor' = IF index_out_of_range(old + d, old_len)
                           \/ index_out_of_range(new + d, new_len)
                        THEN [processor EXCEPT !.panicked = TRUE]
                        ELSE Processor_replace(processor, old + d, old_len, new + d, new_len)
        /\ script' = Append(script, Op("Replace", old + d, old_len, new + d, new_len))
        /\ old' = old + d + old_len
        /\ new' = new + d + new_len
    /\ UNCHANGED <<finished, api, dir>>

NextUnchecked ==
    \/ deliver_equal
    \/ deliver_delete
    \/ deliver_insert
    \/ deliver_replace
    \/ finish

SpecUnchecked == Init /\ [][NextUnchecked]_vars

\* every operation starts where the one before it ended, the first at 0
Chained ==
    \A k \in 1..Len(script) :
        /\ script[k].old = (IF k = 1 THEN 0 ELSE script[k-1].old + script[k-1].old_len)
        /\ script[k].new = (IF k = 1 THEN 0 ELSE script[k-1].new + script[k-1].new_len)

\* the script covers [0, TextLen) on both sides without gap or overlap
WellFormed == Chained /\ old = TextLen /\ new = TextLen

\* C19 (contract violations fail fast): a script with a gap, an overlap or
\* ranges that do not cover both texts makes the builder stop with a fault,
\* so finish() never returns hunks computed from such a script.
C19_ContractViolationsFailFast ==
    (Completed /\ hunks # <<>>) => WellFormed

\* ------------------------------------------------------ directory comparison
\* A directory holds entries named 1..MaxNames (their order is the order of
\* sort_by_file_name); each is absent, a sub-directory or a file.
MaxNames == 2

\* file contents: the lines and whether the last line ends with a newline
Contents ==
    { [lines |-> <<"x">>, newline |-> TRUE],
      [lines |-> <<"x">>, newline |-> FALSE],
      [lines |-> <<"y">>, newline |-> TRUE] }

Entries ==
    {[type |-> "absent"], [type |-> "dir"]}
        \cup {[type |-> "file", content |-> c] : c \in Contents}

Trees == [1..MaxNames -> Entries]

\* str::lines() of a file's contents: the final newline is not part of a line
str_lines(content) == content.lines

\* WalkDir::new(root).sort_by_file_name(): the root itself, then its entries
RECURSIVE WalkDir(_, _)
WalkDir(tree, k) ==
    IF k > MaxNames THEN <<>>
    ELSE (IF tree[k].type = "absent" THEN <<>>
          ELSE <<[path |-> k, file_type |-> tree[k].type, entry |-> tree[k]]>>)
         \o WalkDir(tree, k + 1)

WalkDir_new(tree) ==
    <<[path |-> 0, file_type |-> "dir", entry |-> [type |-> "dir"]]>> \o WalkDir(tree, 1)

\* zip of two walks: as long as the shorter one
zip_len(a, b) == IF Len(a) <= Len(b) THEN Len(a) ELSE Len(b)

\* inner_try_diff_file: reads both files and compares their lines
inner_try_diff_file(expected, actual) ==
    IF str_lines(expected.content) = str_lines(actual.content)
    THEN [ok |-> TRUE]
    ELSE [ok |-> FALSE, err |-> "Found differences"]

\* the body of the loop of inner_try_diff_dir for the k-th pair and after
RECURSIVE diff_dir_loop(_, _, _)
diff_dir_loop(expected, actual, k) ==
    IF k > zip_len(expected, actual) THEN [ok |-> TRUE]
    ELSE IF expected[k].path # actual[k].path
         THEN [ok |-> FALSE, err |-> "Inconsistent file and directory structure"]
    ELSE IF expected[k].file_type # actual[k].file_type
         THEN [ok |-> FALSE, err |-> "Inconsistent entry type"]
    ELSE IF expected[k].file_type = "file"
            /\ ~inner_try_diff_file(expected[k].entry, actual[k].entry).ok
         THEN inner_try_diff_file(expected[k].entry, actual[k].entry)
    ELSE diff_dir_loop(expected, actual, k + 1)

\* inner_try_diff_dir(expected_root, actual_root, msg_fmt)
inner_try_diff_dir(expected_root, actual_root) ==
    diff_dir_loop(WalkDir_new(expected_root), WalkDir_new(actual_root), 1)

InitDir ==
    /\ processor = Processor_new(DefaultRadius)
    /\ script = <<>>
    /\ old = 0
    /\ new = 0
    /\ finished = FALSE
    /\ api = NoCall
    /\ dir \in {[state |-> "called", expected |-> e, actual |-> a] : e \in Trees, a \in Trees}

\* try_diff_dir!(expected, actual)
try_diff_dir ==
    /\ dir.state = "called"
    /\ dir' = [state |-> "returned", expected |-> dir.expected, actual |-> dir.actual,
               ret |-> inner_try_diff_dir(dir.expected, dir.actual)]
    /\ UNCHANGED <<processor, script, old, new, finished, api>>

NextDir == try_diff_dir

SpecDir == InitDir /\ [][NextDir]_vars

\* C20 (directory comparison): try_diff_dir returns Ok exactly when the two
\* trees hold the same entries with the same types and every file has the
\* same content in both; an entry present in one tree only gives Err.
C20_DirEqualIffSameTree ==
    dir.state = "returned" => (dir.ret.ok <=> dir.expected = dir.actual)

\* C14 (try_diff / assert_diff): inner_try_diff returns Ok exactly when the
\* two texts are the same sequence of lines, otherwise Err with a text that
\* starts with a newline followed by the caller's message; assert_diff
\* panics exactly when try_diff returns Err.
C14_TryDiff ==
    /\ api.call = "try_diff" =>
          /\ api.ret.ok <=> (left = right)
          /\ ~api.ret.ok => (api.ret.err[1] = NL /\ api.ret.err[2] = Msg(api.msg))
    /\ api.call = "assert_diff" =>
          /\ api.outcome.panicked <=> (left # right)
          /\ api.outcome.panicked <=> ~inner_try_diff(hunks, api.msg).ok

C14_Witness ==
    /\ api.call = "try_diff"
    /\ api.msg = "Found differences"
    /\ left # right
    /\ ~api.ret.ok
    /\ Len(api.ret.err) > 4

\* C17 (sub-line rendering preserves the new line): the elements LineDiff
\* prints for a paired row, in order and without styling, are exactly the
\* elements of the row's own (right) line; with no sub-line hunk the line is
\* printed as it is.
C17_SubLinePreservesLine ==
    api.call = "line_diff" =>
        /\ [k \in 1..Len(api.inner) |-> api.inner[k].c] = right
        /\ hunks = <<>> => \A k \in 1..Len(api.inner) : api.inner[k].style = "plain"

C17_Witness ==
    /\ api.call = "line_diff"
    /\ Len(script) = 3
    /\ script[2].op = "Replace"
    /\ script[1].op = "Equal"
    /\ script[3].op = "Equal"
    /\ Len(api.inner) = 3
    /\ api.inner[2].style = "reversed"

\* ------------------------------------------------------ accumulator lifecycle
\* the hunk a step appended to the result
Appended == processor'.result[Len(processor'.result)]

\* the first lines of the appended hunk are the lines the accumulator held
FromAccumulator ==
    \A k \in 1..Len(Appended.lines) :
        k <= Len(processor.context.data) => Appended.lines[k] = processor.context.data[k]

\* C21 (accumulator lifecycle): a step appends at most one hunk and never
\* touches the hunks already emitted; the appended hunk holds the lines of
\* the accumulator, which is replaced by one whose change flag and counts are
\* clear; once finish() has been called, calling it again leaves the result
\* unchanged.
C21_AccumulatorLifecycle ==
    [][ /\ Len(processor'.result) <= Len(processor.result) + 1
        /\ SubSeq(processor'.result, 1, Len(processor.result)) = processor.result
        /\ Len(processor'.result) > Len(processor.result) =>
              /\ FromAccumulator
              /\ processor.context.changed
              /\ ~processor'.context.changed
              /\ processor'.context.removed = 0
              /\ processor'.context.inserted = 0
        /\ finished => processor'.result = processor.result ]_vars

\* finish() has been called a second time on a result that holds hunks
C21_Witness ==
    /\ api.call = "finish"
    /\ finished
    /\ Len(hunks) = 2
    /\ api.result_before = hunks

\* ------------------------------------------------------- positions by kind
\* the hunk holds the line the replace paired with l: for a ReplaceRemoved
\* line the ReplaceInserted line that names its old position, for a
\* ReplaceInserted line the ReplaceRemoved line that names its new position
HasCounterpart(h, l) ==
    \E k \in 1..Len(h.lines) :
        /\ h.lines[k].kind = invert(l.kind)
        /\ IF l.kind = "ReplaceRemoved"
           THEN h.lines[k].old_pos = l.old_pos
           ELSE h.lines[k].new_pos = l.new_pos

PositionsByKind(h, l) ==
    CASE l.kind = "Unchanged" -> IsSome(l.old_pos) /\ IsSome(l.new_pos)
      [] l.kind = "Removed" -> IsSome(l.old_pos) /\ ~IsSome(l.new_pos)
      [] l.kind = "Inserted" -> ~IsSome(l.old_pos) /\ IsSome(l.new_pos)
      [] l.kind = "ReplaceRemoved" ->
            IsSome(l.old_pos) /\ (IsSome(l.new_pos) <=> HasCounterpart(h, l))
      [] l.kind = "ReplaceInserted" ->
            IsSome(l.new_pos) /\ (IsSome(l.old_pos) <=> HasCounterpart(h, l))

\* C22 (position presence by kind): in every line of every emitted hunk an
\* Unchanged line has both positions, a Removed line old_pos only, an
\* Inserted line new_pos only, a ReplaceRemoved line old_pos and new_pos
\* exactly when its counterpart exists, a ReplaceInserted line new_pos and
\* old_pos exactly when its counterpart exists; so every position
\* LineDisplay::fmt unwraps is present.
C22_PositionsByKind ==
    \A n \in 1..Len(hunks) :
        \A k \in 1..Len(hunks[n].lines) :
            /\ PositionsByKind(hunks[n], hunks[n].lines[k])
            /\ \A o \in LineDisplay_unwraps(hunks[n].lines[k]) : IsSome(o)

\* one hunk with all five kinds, among them a ReplaceRemoved line that has
\* no counterpart
C22_Witness ==
    /\ Completed
    /\ Len(hunks) = 1
    /\ {hunks[1].lines[k].kind : k \in 1..Len(hunks[1].lines)} = LineKind
    /\ \E k \in 1..Len(hunks[1].lines) :
          /\ hunks[1].lines[k].kind = "ReplaceRemoved"
          /\ ~IsSome(hunks[1].lines[k].new_pos)

\* ------------------------------------------------------------ context windows
RECURSIVE TrailingEqual(_)
\* number of lines of the Equal operations the script ends with
TrailingEqual(sc) ==
    IF sc = <<>> \/ sc[Len(sc)].op # "Equal" THEN 0
    ELSE sc[Len(sc)].old_len + TrailingEqual(SubSeq(sc, 1, Len(sc) - 1))

\* unchanged lines seen since the start of the input or since the end of the
\* hunk closed last
UnchangedSinceClose ==
    IF processor.result = <<>>
    THEN TrailingEqual(script)
    ELSE TrailingEqual(script) - TrailingContext(processor.result[Len(processor.result)])

Least(a, b) == IF a <= b THEN a ELSE b

\* the m unchanged lines that end just before old / new
LastUnchanged(m) == [k \in 1..m |-> Line_unchanged(old - m + k - 1, new - m + k - 1)]

\* C23 (leading-context window): when a change arrives while no change has
\* been seen in the accumulator, the buffer holds exactly the last
\* min(radius, n) unchanged lines before the change, n being the number of
\* unchanged lines since the start or since the last closed hunk; they stay
\* in front of the change and the start is the old index of the first one.
C23_LeadingWindow ==
    [][ (~finished /\ ~processor.context.changed /\ processor'.context.changed) =>
          LET m == Least(Radius, UnchangedSinceClose)
          IN  /\ processor.context.data = LastUnchanged(m)
              /\ SubSeq(processor'.context.data, 1, m) = LastUnchanged(m)
              /\ processor'.context.data[m + 1].kind # "Unchanged"
              /\ processor'.context.start = Some(old - m) ]_vars

RECURSIVE BeforeSplit(_, _, _, _)
\* number of lines of an equal(i, j, n) call in state p that are handled
\* before the call closes a hunk (all n when it closes none)
BeforeSplit(p, i, j, n) ==
    IF n = 0 THEN 0
    ELSE LET q == equal_in_change(equal_gathering(p, i, j), i, j)
         IN  IF Len(q.result) > Len(p.result) THEN 0
             ELSE 1 + BeforeSplit(q, i + 1, j + 1, n - 1)

\* the accumulated lines at the moment the step closes the hunk: the buffer
\* and, for a split, the lines of the equal call that came before the split
AtClose ==
    IF finished' THEN processor.context.data
    ELSE LET o == script'[Len(script')]
             b == BeforeSplit(enter(processor, o.old), o.old, o.new, o.old_len)
         IN  processor.context.data
                \o [k \in 1..b |-> Line_unchanged(o.old + k - 1, o.new + k - 1)]

\* C24 (trailing trim on close): a hunk closed by a split or by finish()
\* holds the accumulated lines up to its last changed line followed by
\* exactly the first min(radius, n) of the n unchanged lines that came after
\* it before the close.
C24_TrailingTrim ==
    [][ Len(processor'.result) > Len(processor.result) =>
          LET buf == [lines |-> AtClose]
              n == TrailingContext(buf)
              keep == Len(AtClose) - n + Least(Radius, n)
          IN  /\ Appended.lines = SubSeq(AtClose, 1, keep)
              /\ TrailingContext(Appended) = Least(Radius, n) ]_vars

\* C25 (trailing buffer and split): while a change is in the accumulator at
\* most 2*radius unchanged lines are buffered behind it; the hunk is closed
\* when one more line arrives, and the accumulator that replaces it is not
\* changed, holds only unchanged lines that end with the last line handled,
\* and starts at the old index of its first line.
C25_SplitAtTwiceRadius ==
    [][ /\ processor'.context.changed =>
              TrailingContext([lines |-> processor'.context.data]) <= 2 * Radius
        /\ (Len(processor'.result) > Len(processor.result) /\ ~finished') =>
              LET data == processor'.context.data
              IN  /\ TrailingContext([lines |-> AtClose]) = 2 * Radius
                  /\ ~processor'.context.changed
                  /\ data # <<>>
                  /\ \A k \in 1..Len(data) : data[k].kind = "Unchanged"
                  /\ data[Len(data)] = Line_unchanged(old' - 1, new' - 1)
                  /\ processor'.context.start = data[1].old_pos ]_vars

\* C26 (no context-only hunks): every hunk of the result holds at least one
\* line that is not Unchanged, for every script and every radius.
C26_NoContextOnlyHunks ==
    \A n \in 1..Len(hunks) : ChangedAt(hunks[n]) # {}

\* two hunks with one changed line each, the second closed by finish() with
\* context on both sides
C26_Witness ==
    /\ Completed
    /\ Len(hunks) = 2
    /\ \A n \in 1..2 : Cardinality(ChangedAt(hunks[n])) = 1
    /\ LeadingContext(hunks[2]) >= 1
    /\ TrailingContext(hunks[2]) >= 1

\* ------------------------------------------------ frame of change operations
\* the step delivered a delete, an insert or a replace
ChangeStep == Len(script') = Len(script) + 1 /\ IsChangeOp(script'[Len(script')])

\* the lines the step appended at the back of the buffer
Pushed == SubSeq(processor'.context.data, Len(processor.context.data) + 1,
                 Len(processor'.context.data))

\* C27 (frame of change operations): delete, insert and replace set the
\* change flag, append the old_len removed lines and then the new_len
\* inserted lines behind the lines already buffered, add those lengths to the
\* accumulator's removed / inserted counts, and leave the result, the
\* accumulator's equaled count and the running totals as they were.
C27_ChangeOpFrame ==
    [][ ChangeStep =>
          LET o == script'[Len(script')]
          IN  /\ processor'.context.changed
              /\ SubSeq(processor'.context.data, 1, Len(processor.context.data))
                    = processor.context.data
              /\ Len(Pushed) = o.old_len + o.new_len
              /\ \A k \in 1..Len(Pushed) :
                    /\ sign(Pushed[k].kind) = (IF k <= o.old_len THEN "-" ELSE "+")
                    /\ is_replaced(Pushed[k].kind) <=> (o.op = "Replace")
              /\ processor'.context.removed = processor.context.removed + o.old_len
              /\ processor'.context.inserted = processor.context.inserted + o.new_len
              /\ processor'.context.equaled = processor.context.equaled
              /\ processor'.result = processor.result
              /\ processor'.removed = processor.removed
              /\ processor'.inserted = processor.inserted ]_vars

\* an insert and then a replace have been pushed behind context lines into
\* the accumulator that follows a closed hunk
C27_Witness ==
    /\ ~finished
    /\ Len(script) >= 4
    /\ script[Len(script) - 1].op = "Insert"
    /\ LastOp.op = "Replace"
    /\ processor.result # <<>>
    /\ processor.inserted + processor.removed > 0
    /\ processor.context.equaled > 0
    /\ processor.context.removed = LastOp.old_len
    /\ processor.context.changed

\* -------------------------------------------------- pair rendering decision
RECURSIVE BodyIndex(_)
\* place of the header of hunk n among the headers and rows of the text
BodyIndex(n) == IF n = 1 THEN 1 ELSE BodyIndex(n - 1) + 1 + Len(hunks[n - 1].lines)

\* the row the display prints for line k of hunk n
RowAt(text, n, k) == SelectSeq(text, IsBody)[BodyIndex(n) + k]

\* the Replace operation of the script that pushed the replaced line l
ReplaceOf(l) ==
    CHOOSE o \in {script[m] : m \in 1..Len(script)} :
        /\ o.op = "Replace"
        /\ IF l.kind = "ReplaceRemoved"
           THEN Unwrap(l.old_pos) \in o.old..(o.old + o.old_len - 1)
           ELSE Unwrap(l.new_pos) \in o.new..(o.new + o.new_len - 1)

\* l is a replaced line whose index in its replace is below both lengths
PairedInReplace(l) ==
    /\ is_replaced(l.kind)
    /\ LET o == ReplaceOf(l)
           k == IF l.kind = "ReplaceRemoved"
                THEN Unwrap(l.old_pos) - o.old
                ELSE Unwrap(l.new_pos) - o.new
       IN  k < Least(o.old_len, o.new_len)

\* C28 (pair rendering decision): in display form a row goes through the
\* sub-line differ exactly when its line is a ReplaceRemoved or
\* ReplaceInserted line whose counterpart is in the same hunk, that is, whose
\* index in the replace is below min(oldLen, newLen); replaced lines beyond
\* that and Removed, Inserted and Unchanged lines are printed plainly.
C28_PairRendering ==
    api.call = "display" =>
        \A n \in 1..Len(hunks) :
            \A k \in 1..Len(hunks[n].lines) :
                LET l == hunks[n].lines[k]
                    row == RowAt(api.text, n, k)
                IN  /\ row.t = "row"
                    /\ row.sign = sign(l.kind)
                    /\ row.sub_line <=> (is_replaced(l.kind) /\ HasCounterpart(hunks[n], l))
                    /\ row.sub_line <=> PairedInReplace(l)

\* a displayed hunk with an unchanged row, a paired replace and a
\* ReplaceRemoved row beyond the shorter side
C28_Witness ==
    /\ api.call = "display"
    /\ Len(hunks) = 1
    /\ LastOp = Op("Replace", LastOp.old, 2, LastOp.new, 1)
    /\ hunks[1].lines[1].kind = "Unchanged"
    /\ \E k \in 1..Len(hunks[1].lines) :
          /\ hunks[1].lines[k].kind = "ReplaceRemoved"
          /\ ~RowAt(api.text, 1, k).sub_line
    /\ \E k \in 1..Len(hunks[1].lines) :
          /\ hunks[1].lines[k].kind = "ReplaceInserted"
          /\ RowAt(api.text, 1, k).sub_line

\* ------------------------------------------------------------- LineKind
\* the sign of the other side
OtherSign(sg) == CASE sg = "+" -> "-" [] sg = "-" -> "+" [] OTHER -> sg

\* C29 (invert): invert maps Removed to Inserted and back, ReplaceRemoved to
\* ReplaceInserted and back, and Unchanged to itself; applied twice it gives
\* the kind back, it keeps is_replaced, and it swaps the signs '+' and '-'
\* while ' ' stays.
C29_Invert ==
    /\ invert("Removed") = "Inserted"
    /\ invert("Inserted") = "Removed"
    /\ invert("ReplaceRemoved") = "ReplaceInserted"
    /\ invert("ReplaceInserted") = "ReplaceRemoved"
    /\ invert("Unchanged") = "Unchanged"
    /\ \A kind \in LineKind :
          /\ invert(invert(kind)) = kind
          /\ is_replaced(invert(kind)) = is_replaced(kind)
          /\ sign(invert(kind)) = OtherSign(sign(kind))
    /\ \A n \in 1..Len(hunks) :
          \A k \in 1..Len(hunks[n].lines) :
              IsSome(get_inverted(hunks[n].lines[k])) =>
                  /\ Unwrap(get_inverted(hunks[n].lines[k]))[2] # hunks[n].lines[k].kind
                  /\ is_replaced(Unwrap(get_inverted(hunks[n].lines[k]))[2])

\* the display has looked up the inverted kind of both lines of a pair
C29_Witness ==
    /\ api.call = "display"
    /\ \E n \in 1..Len(hunks) :
          \E a, b \in 1..Len(hunks[n].lines) :
              /\ hunks[n].lines[a].kind = "ReplaceRemoved"
              /\ hunks[n].lines[b].kind = "ReplaceInserted"
              /\ get_inverted(hunks[n].lines[a]) = get_with_pos(hunks[n].lines[b])
              /\ get_inverted(hunks[n].lines[b]) = get_with_pos(hunks[n].lines[a])
              /\ RowAt(api.text, n, a).sub_line
              /\ RowAt(api.text, n, b).sub_line

\* ------------------------------------------------------------- termination
\* C30 (termination): for every script and every radius the processing
\* reaches the finished state, without a fault, and stays there.
C30_Termination == <>[](finished /\ ~processor.panicked)

\* a script with a split in it has been followed to its end
C30_Witness ==
    /\ Completed
    /\ Len(script) = 3
    /\ Len(hunks) = 2
    /\ \E k \in 1..Len(script) : script[k].op = "Equal" /\ script[k].old_len > 2 * Radius

\* ------------------------------------------------------ changes are kept
\* the lines a delete, an insert or a replace stands for, removed lines
\* first; an equal stands for none
ChangesOf(o) ==
    CASE o.op = "Delete" -> [k \in 1..o.old_len |-> Line_remove(o.old + k - 1)]
      [] o.op = "Insert" -> [k \in 1..o.new_len |-> Line_insert(o.new + k - 1)]
      [] o.op = "Replace" ->
            [k \in 1..o.old_len |->
                Line_replace_remove(o.old + k - 1,
                    IF k <= o.new_len THEN Some(o.new + k - 1) ELSE None)]
            \o [k \in 1..o.new_len |->
                Line_replace_insert(
                    IF k <= o.old_len THEN Some(o.old + k - 1) ELSE None,
                    o.new + k - 1)]
      [] OTHER -> <<>>

RECURSIVE ScriptChanges(_)
\* the changed lines of a script, in script order
ScriptChanges(sc) ==
    IF sc = <<>> THEN <<>>
    ELSE ScriptChanges(SubSeq(sc, 1, Len(sc) - 1)) \o ChangesOf(sc[Len(sc)])

RECURSIVE HunkChanges(_)
\* the lines that are not Unchanged of a list of hunks, in result order
HunkChanges(hs) ==
    IF hs = <<>> THEN <<>>
    ELSE SelectSeq(hs[1].lines, IsChanged) \o HunkChanges(Tail(hs))

\* C31 (no change lost or duplicated): after finish() the changed lines of
\* the hunks, taken in result order, are exactly the lines of the script's
\* Delete, Insert and Replace operations in script order.
C31_ChangesKept ==
    Completed => HunkChanges(hunks) = ScriptChanges(script)

\* three changes of different kinds end up in two hunks
C31_Witness ==
    /\ Completed
    /\ Len(hunks) = 2
    /\ Len(script) = 4
    /\ Cardinality({script[k].op : k \in 1..Len(script)}) = 4
    /\ Len(ScriptChanges(script)) >= 4

\* ------------------------------------------------------- arithmetic faults
\* C32 (no arithmetic fault): for every script, with several Equal
\* operations in a row or a long unchanged run at the end, and every radius,
\* none of the subtractions of split_hunks and create_hunk goes below zero.
C32_NoArithmeticFault == ~processor.panicked

\* a run longer than 2*radius has split the first hunk off, and finish() has
\* trimmed the run behind a second hunk that lies after more removed than
\* inserted lines
C32_Witness ==
    /\ Completed
    /\ Len(script) = 4
    /\ script[2].op = "Equal"
    /\ script[2].old_len > 2 * Radius
    /\ script[4].op = "Equal"
    /\ script[4].old_len > Radius
    /\ Radius >= 1
    /\ Len(hunks) = 2
    /\ hunks[2].new_start < hunks[2].old_start
    /\ TrailingContext(hunks[2]) = Radius

\* ------------------------------------------------------ append-only result
\* C33 (emitted hunks are append-only): every operation leaves the hunks
\* already emitted as they are and in the same order; only equal and finish
\* append to the result, and one call appends at most one hunk.
C33_AppendOnly ==
    [][ /\ Len(processor'.result) >= Len(processor.result)
        /\ \A n \in 1..Len(processor.result) : processor'.result[n] = processor.result[n]
        /\ Len(processor'.result) <= Len(processor.result) + 1
        /\ Len(processor'.result) > Len(processor.result) =>
              \/ (finished' /\ ~finished /\ script' = script)
              \/ (script' # script /\ script'[Len(script')].op = "Equal") ]_vars

\* an equal has split a second hunk off while the first one was there
C33_Witness ==
    /\ ~finished
    /\ Len(processor.result) = 2
    /\ LastOp.op = "Equal"
    /\ ~processor.context.changed
    /\ processor.context.data # <<>>

\* ------------------------------------------------------- replace pairs
\* every line of the operation is in hunk h
AllIn(h, o) == \A k \in 1..Len(ChangesOf(o)) : Holds(h, ChangesOf(o)[k])

\* the lines of a hunk the display keeps under a key (old position, kind)
Keyed(h) == {k \in 1..Len(h.lines) : IsSome(get_with_pos(h.lines[k]))}

\* C34 (a replace pair is never split): after finish() all the
\* ReplaceRemoved and ReplaceInserted lines of a replace are in one hunk; in
\* every hunk no two lines of the same kind have the same old position, so
\* each key (old position, kind) of the display stands for one line.
C34_ReplaceInOneHunk ==
    /\ Completed =>
          \A m \in 1..Len(script) :
              script[m].op = "Replace" => \E n \in 1..Len(hunks) : AllIn(hunks[n], script[m])
    /\ \A n \in 1..Len(hunks) :
          /\ \A a, b \in 1..Len(hunks[n].lines) :
                (/\ a # b
                 /\ hunks[n].lines[a].kind = hunks[n].lines[b].kind
                 /\ IsSome(hunks[n].lines[a].old_pos))
                    => hunks[n].lines[a].old_pos # hunks[n].lines[b].old_pos
          /\ Cardinality(replaced_keys(hunks[n])) = Cardinality(Keyed(hunks[n]))

\* two replaces, the first with two lines on each side, in the same hunk
C34_Witness ==
    /\ Completed
    /\ Len(hunks) = 1
    /\ \E a, b \in 1..Len(script) :
          /\ a < b
          /\ script[a].op = "Replace"
          /\ script[a].old_len = 2
          /\ script[a].new_len = 2
          /\ script[b].op = "Replace"
          /\ AllIn(hunks[1], script[a])
          /\ AllIn(hunks[1], script[b])

\* ------------------------------------------------ accumulator bookkeeping
\* number of lines of the buffer whose kind is among kinds
InBuffer(kinds) ==
    Cardinality({k \in 1..Len(processor.context.data) :
                    processor.context.data[k].kind \in kinds})

\* places of the buffer's lines that have an old position
WithOldPos == {k \in 1..Len(processor.context.data) :
                  IsSome(processor.context.data[k].old_pos)}

Bookkeeping ==
    /\ processor.context.equaled = InBuffer({"Unchanged"})
    /\ processor.context.removed = InBuffer({"Removed", "ReplaceRemoved"})
    /\ processor.context.inserted = InBuffer({"Inserted", "ReplaceInserted"})
    /\ WithOldPos # {} =>
          processor.context.start = processor.context.data[Min(WithOldPos)].old_pos

\* C35 (accumulator bookkeeping): after every equal, delete, insert and
\* replace of a script, equaled is the number of Unchanged lines of the
\* buffer, removed and inserted are the numbers of its old-side and new-side
\* changed lines, and start is the old position of the first line of the
\* buffer that has one.  (finish() is not an operation of the script: it
\* leaves start unset whatever the buffer still holds.)
C35_Bookkeeping ==
    (script # <<>> /\ ~finished) => Bookkeeping

\* the accumulator that follows a split holds context lines, a paired and an
\* unpaired replaced line
C35_Witness ==
    /\ ~finished
    /\ processor.result # <<>>
    /\ LastOp = Op("Replace", LastOp.old, 1, LastOp.new, 2)
    /\ processor.context.equaled >= 1
    /\ processor.context.inserted = 2
    /\ IsSome(processor.context.start)
    /\ Unwrap(processor.context.start) > 0
    /\ Bookkeeping

====
